---- MODULE Spec2Model ----
(***************************************************************************)
(* NaviSafe: route-risk scoring, hazard proximity detection, the safety    *)
(* briefing fallback, the admin credential check and the map component's   *)
(* fetch-and-score / draw-routes effects.                                  *)
(*                                                                         *)
(* Geography.  Coordinates are integers on a grid whose unit is 50 m of    *)
(* arc, laid out at the equator.  A GeoJSON coordinate of the router is a  *)
(* pair <<lon, lat>>; a black spot carries lat and lng fields; the helper  *)
(* haversineDistance takes records with lat and lon fields.                *)
(***************************************************************************)
EXTENDS Integers, Sequences, FiniteSets, TLC

(***************************************************************************)
(* Bounds of the model.                                                    *)
(***************************************************************************)
MaxRouteLen == 2
MaxSpots == 2
MaxRoutes == 2
MaxStops == 1
MaxInFlight == 1
MaxOverlap == MaxInFlight + 1

(***************************************************************************)
(* Program constants.                                                      *)
(***************************************************************************)
COLLISION_THRESHOLD == 500
COLLISION_THRESHOLD_V1 == 50
HighWeight == 10
OtherWeight == 5
Stride == 10
NEARBY_THRESHOLD == 50
LatLimit == 90
LngLimit == 180

(***************************************************************************)
(* Input domains.                                                          *)
(***************************************************************************)
\* GeoJSON coordinates <<lon, lat>> the router may put in a geometry.
Points == { <<0, 0>>, <<1, 0>>, <<10, 0>>, <<0, 10>> }

\* Where a black spot may lie, as <<lng, lat>>.
SpotPoints == { <<0, 0>>, <<10, 0>> }

RiskLevels == { "High", "Medium" }

Histories == { "skid", "blind curve" }

Durations == { 1, 2 }

\* All sequences over S of length lo..hi.
SeqsOf(S, lo, hi) == UNION { [1..n -> S] : n \in lo..hi }

Geometries == SeqsOf(Points, 1, MaxRouteLen)

\* A route object of the router's JSON (the fields the program reads).
JsonRoutes == [ geometry : Geometries, duration : Durations ]

\* A black spot document; ids are the document ids, unique in a collection.
SpotAt(i, p, r, h) ==
    [ id |-> i, lat |-> p[2], lng |-> p[1], risk_level |-> r, accident_history |-> h ]

\* Collections of n documents with ids 1..n, one accident history each.
SpotListsWith(H) ==
    UNION { { [ i \in 1..n |-> SpotAt(i, f[i][1], f[i][2], f[i][3]) ] :
                f \in [1..n -> SpotPoints \X RiskLevels \X H] } : n \in 0..MaxSpots }

(***************************************************************************)
(* Pure helpers.                                                           *)
(***************************************************************************)
RECURSIVE ISqrtFrom(_, _, _)
\* Largest r in lo..hi with r*r <= n (binary search).
ISqrtFrom(n, lo, hi) ==
    IF lo >= hi THEN lo
    ELSE LET mid == (lo + hi + 1) \div 2
         IN  IF mid * mid <= n THEN ISqrtFrom(n, mid, hi)
                               ELSE ISqrtFrom(n, lo, mid - 1)

Abs(x) == IF x < 0 THEN -x ELSE x

\* A plausible slip: the signed latitude difference instead of the
\* great-circle length.
haversineDistance_signed(a, b) == 50 * (b.lat - a.lat)

\* Great-circle distance in metres between two {lat, lon} records, grid
\* units of 50 m: R * sqrt(dLat^2 + cos(lat1)cos(lat2) dLon^2) with the
\* cosines equal to 1 on the modelled patch.
haversineDistance(a, b) ==
    LET dLat == b.lat - a.lat
        dLon == b.lon - a.lon
    IN  ISqrtFrom(2500 * (dLat * dLat + dLon * dLon), 0, 50 * (Abs(dLat) + Abs(dLon)))

\* route.geometry.coordinates.map(c => [c[1], c[0]]): GeoJSON <<lon, lat>>
\* to Leaflet <<lat, lon>>.
ToLatLng(geometry) == [ i \in 1..Len(geometry) |-> << geometry[i][2], geometry[i][1] >> ]

\* The distance the detection loops compute for one (spot, point) pair.
SpotDist(spot, point) ==
    haversineDistance([lat |-> spot.lat, lon |-> spot.lng],
                      [lat |-> point[1], lon |-> point[2]])

\* The severity weight of one detected spot.
Weight(spot) == IF spot.risk_level = "High" THEN HighWeight ELSE OtherWeight

Contains(seq, x) == \E i \in 1..Len(seq) : seq[i] = x

\* Set.prototype.add on an insertion-ordered Set kept as a sequence.
SetAdd(seq, x) == IF Contains(seq, x) THEN seq ELSE Append(seq, x)

(***************************************************************************)
(* Risk score of one route (the map component with alternative routes).    *)
(***************************************************************************)
\* A plausible slip: no check of detectedSpots, so a spot near several
\* route points is counted once per point.
RiskStep_nodedup(acc, spot, point) ==
    IF SpotDist(spot, point) < COLLISION_THRESHOLD
    THEN [ riskScore |-> acc.riskScore + Weight(spot),
           detectedSpots |-> acc.detectedSpots \cup { spot.id } ]
    ELSE acc

\* The callback of the inner forEach: one (point, spot) pair.
RiskStep(acc, spot, point) ==
    IF spot.id \in acc.detectedSpots THEN acc
    ELSE IF SpotDist(spot, point) < COLLISION_THRESHOLD
         THEN [ riskScore |-> acc.riskScore + Weight(spot),
                detectedSpots |-> acc.detectedSpots \cup { spot.id } ]
         ELSE acc

RECURSIVE RiskOverSpots(_, _, _, _)
\* (blackSpots || []).forEach(spot => ...) for one route point.
RiskOverSpots(acc, spots, j, point) ==
    IF j > Len(spots) THEN acc
    ELSE RiskOverSpots(RiskStep(acc, spots[j], point), spots, j + 1, point)

RECURSIVE RiskOverPoints(_, _, _, _)
\* coordinates.forEach(point => ...).
RiskOverPoints(acc, coordinates, i, spots) ==
    IF i > Len(coordinates) THEN acc
    ELSE RiskOverPoints(RiskOverSpots(acc, spots, 1, coordinates[i]),
                        coordinates, i + 1, spots)

calculateRiskScore(route, spots) ==
    RiskOverPoints([ riskScore |-> 0, detectedSpots |-> {} ],
                   ToLatLng(route.geometry), 1, spots).riskScore

(***************************************************************************)
(* Hazards handed to the briefing for the selected route (the map          *)
(* component with alternative routes).                                     *)
(***************************************************************************)
\* A plausible slip: an array instead of a Set, so a spot is pushed once
\* per nearby route point.
DetectStep_push(detected, spot, point) ==
    IF SpotDist(spot, point) < COLLISION_THRESHOLD
    THEN Append(detected, spot) ELSE detected

\* The callback of the inner forEach of runSafetyAnalysis.
DetectStep(detected, spot, point) ==
    IF SpotDist(spot, point) < COLLISION_THRESHOLD
    THEN SetAdd(detected, spot) ELSE detected

RECURSIVE DetectOverSpots(_, _, _, _)
DetectOverSpots(detected, spots, j, point) ==
    IF j > Len(spots) THEN detected
    ELSE DetectOverSpots(DetectStep(detected, spots[j], point), spots, j + 1, point)

RECURSIVE DetectOverPoints(_, _, _, _)
DetectOverPoints(detected, coordinates, i, spots) ==
    IF i > Len(coordinates) THEN detected
    ELSE DetectOverPoints(DetectOverSpots(detected, spots, 1, coordinates[i]),
                          coordinates, i + 1, spots)

\* Array.from(detected) of runSafetyAnalysis.
DetectedSpots(route, spots) ==
    DetectOverPoints(<< >>, ToLatLng(route.geometry), 1, spots)

(***************************************************************************)
(* The first map component: one route, a 50 m threshold, spot-major loop   *)
(* with break.                                                             *)
(***************************************************************************)
RECURSIVE HitsRoute(_, _, _)
\* for (const point of routePoints) { if (dist <= T) { add; break } }
HitsRoute(spot, routePoints, i) ==
    IF i > Len(routePoints) THEN FALSE
    ELSE IF haversineDistance([lat |-> spot.lat, lon |-> spot.lng], routePoints[i])
              <= COLLISION_THRESHOLD_V1
         THEN TRUE
         ELSE HitsRoute(spot, routePoints, i + 1)

RECURSIVE CollideOverSpots(_, _, _, _)
\* for (const spot of blackSpots) ...
CollideOverSpots(collidingSpots, spots, j, routePoints) ==
    IF j > Len(spots) THEN collidingSpots
    ELSE CollideOverSpots(
             IF HitsRoute(spots[j], routePoints, 1)
             THEN SetAdd(collidingSpots, spots[j]) ELSE collidingSpots,
             spots, j + 1, routePoints)

CollidingSpots(route, spots) ==
    LET routeGeometry == ToLatLng(route.geometry)
        routePoints == [ i \in 1..Len(routeGeometry) |->
                           [ lat |-> routeGeometry[i][1], lon |-> routeGeometry[i][2] ] ]
    IN  CollideOverSpots(<< >>, spots, 1, routePoints)

(***************************************************************************)
(* The single-route map component with the sampling "optimization": only   *)
(* every tenth route point is compared.                                    *)
(***************************************************************************)
RECURSIVE SampledOverSpots(_, _, _, _)
SampledOverSpots(detected, spots, j, point) ==
    IF j > Len(spots) THEN detected
    ELSE SampledOverSpots(
             IF SpotDist(spots[j], point) < COLLISION_THRESHOLD
             THEN SetAdd(detected, spots[j]) ELSE detected,
             spots, j + 1, point)

RECURSIVE SampledOverPoints(_, _, _, _)
\* index is the 0-based forEach index: coordinates[index + 1] here.
SampledOverPoints(detected, coordinates, index, spots) ==
    IF index >= Len(coordinates) THEN detected
    ELSE SampledOverPoints(
             IF index % Stride # 0 THEN detected
             ELSE SampledOverSpots(detected, spots, 1, coordinates[index + 1]),
             coordinates, index + 1, spots)

SampledSpots(route, spots) ==
    SampledOverPoints(<< >>, ToLatLng(route.geometry), 0, spots)

(***************************************************************************)
(* getSafetyBriefing.  A string is kept as the sequence of its segments:   *)
(* literal text, an interpolated number, or one bullet line.               *)
(***************************************************************************)
Lit(t) == [ kind |-> "lit", text |-> t, n |-> 0, risk_level |-> "", accident_history |-> "" ]

Num(k) == [ kind |-> "num", text |-> "", n |-> k, risk_level |-> "", accident_history |-> "" ]

Bullet(spot) ==
    [ kind |-> "bullet", text |-> "", n |-> 0,
      risk_level |-> spot.risk_level, accident_history |-> spot.accident_history ]

ClearMessage ==
    << Lit("This route appears to be clear of known high-risk areas. Enjoy your drive and stay safe!") >>

\* What the generative call can do: resolve with a briefing text, resolve
\* with no output (result.safetyBriefing then throws inside the try), or
\* reject.
AiTexts == { << Lit("Drive with extra caution.") >>, << >>, ClearMessage }

AiOutcomes ==
    { [ kind |-> "ok", safetyBriefing |-> t ] : t \in AiTexts }
        \cup { [ kind |-> "rejects", safetyBriefing |-> << >> ],
               [ kind |-> "no output", safetyBriefing |-> << >> ] }

\* A plausible slip: bullets only for the 'High' spots.
FallbackBullets_highOnly(spots) ==
    LET high == SelectSeq(spots, LAMBDA sp : sp.risk_level = "High")
    IN  [ i \in 1..Len(high) |-> Bullet(high[i]) ]

\* blackSpots.forEach(spot => fallbackBriefing += bullet(spot)).
FallbackBullets(spots) == [ i \in 1..Len(spots) |-> Bullet(spots[i]) ]

\* The catch branch.
FallbackBriefing(spots) ==
    IF Len(spots) = 0 THEN ClearMessage
    ELSE << Lit("An AI-powered summary could not be generated. Please proceed with extra caution. This route passes near "),
            Num(Len(spots)),
            Lit(" known accident-prone area(s):") >>
         \o FallbackBullets(spots)

\* A plausible slip: the catch branch logs and rethrows.
getSafetyBriefing_rethrow(spots, ai) ==
    IF ai.kind = "ok"
    THEN [ kind |-> "returns", value |-> ai.safetyBriefing ]
    ELSE [ kind |-> "throws", value |-> << >> ]

\* How the promise of getSafetyBriefing settles, given what the generative
\* call did.
getSafetyBriefing(spots, ai) ==
    IF ai.kind = "ok"
    THEN [ kind |-> "returns", value |-> ai.safetyBriefing ]
    ELSE [ kind |-> "returns", value |-> FallbackBriefing(spots) ]

(***************************************************************************)
(* AuthProvider.                                                           *)
(***************************************************************************)
\* A plausible slip: only the user name is compared.
login_userOnly(user, pass, admin) ==
    IF user = "admin"
    THEN [ returns |-> TRUE, isAdmin |-> TRUE ]
    ELSE [ returns |-> FALSE, isAdmin |-> admin ]

\* login(user, pass): the return value and isAdmin afterwards.
login(user, pass, admin) ==
    IF user = "admin" /\ pass = "admin@123"
    THEN [ returns |-> TRUE, isAdmin |-> TRUE ]
    ELSE [ returns |-> FALSE, isAdmin |-> admin ]

UserNames == { "", "admin", "Admin", "admin " }

Passwords == { "", "admin@123", "admin", "Admin@123" }


(***************************************************************************)
(* Ordering of the scored alternatives.                                    *)
(***************************************************************************)
\* A plausible slip: the comparator without the duration tie-break.
compare_scoreOnly(a, b) == a.riskScore - b.riskScore

\* The comparator handed to Array.prototype.sort.
compare(a, b) ==
    IF a.riskScore # b.riskScore THEN a.riskScore - b.riskScore
    ELSE a.duration - b.duration

RECURSIVE InsertSorted(_, _)
\* x goes after every element that does not compare greater than it.
InsertSorted(sorted, x) ==
    IF sorted = << >> THEN << x >>
    ELSE IF compare(sorted[Len(sorted)], x) <= 0 THEN Append(sorted, x)
         ELSE Append(InsertSorted(SubSeq(sorted, 1, Len(sorted) - 1), x),
                     sorted[Len(sorted)])

RECURSIVE SortFrom(_, _, _)
SortFrom(sorted, seq, i) ==
    IF i > Len(seq) THEN sorted
    ELSE SortFrom(InsertSorted(sorted, seq[i]), seq, i + 1)

\* Array.prototype.sort(compare): a stable sort.
Sort(seq) == SortFrom(<< >>, seq, 1)

\* { ...route, riskScore: calculateRiskScore(route) }
WithScore(r, spots) ==
    [ geometry |-> r.geometry, duration |-> r.duration, distance |-> r.distance,
      riskScore |-> calculateRiskScore(r, spots) ]

\* json.routes.map(route => ({ ...route, riskScore })).sort(compare)
sortedRoutes(jsonRoutes, spots) ==
    Sort([ i \in 1..Len(jsonRoutes) |-> WithScore(jsonRoutes[i], spots) ])

\* A plausible slip: the scored routes are stored in the router's order.
ScoredRoutes_unsorted(jsonRoutes, alternativesEnabled, spots) ==
    IF alternativesEnabled
    THEN [ i \in 1..Len(jsonRoutes) |-> WithScore(jsonRoutes[i], spots) ]
    ELSE << WithScore(jsonRoutes[1], spots) >>

\* What setRoutes receives on success.
ScoredRoutes(jsonRoutes, alternativesEnabled, spots) ==
    IF alternativesEnabled THEN sortedRoutes(jsonRoutes, spots)
    ELSE << WithScore(jsonRoutes[1], spots) >>

(***************************************************************************)
(* The world of the application model: the roads the router knows between  *)
(* the two places, and the collections the database may hold.              *)
(***************************************************************************)
RouteCatalogue ==
    { [ geometry |-> << <<0, 0>>, <<1, 0>> >>, duration |-> 1, distance |-> 200 ],
      [ geometry |-> << <<10, 0>> >>, duration |-> 2, distance |-> 100 ],
      [ geometry |-> << <<10, 0>> >>, duration |-> 1, distance |-> 100 ] }

\* json.routes of a router response: up to MaxRoutes routes when
\* alternatives are requested, one route otherwise.
RouterResponses(alternativesEnabled) ==
    SeqsOf(RouteCatalogue, 1, IF alternativesEnabled THEN MaxRoutes ELSE 1)

Collections ==
    { << >>,
      << SpotAt(1, <<0, 0>>, "High", "skid"),
         SpotAt(2, <<10, 0>>, "Medium", "blind curve") >> }

Str(t) == [ type |-> "string", text |-> t ]

CurrentLocation == [ type |-> "object", text |-> "" ]

\* (typeof startLocation === 'string' && !startLocation.trim()) || !endLocation.trim()
Blank(loc) == loc.type = "string" /\ loc.text \in { "", " " }

NullBriefing == [ isNull |-> TRUE, text |-> << >> ]

BriefingText(t) == [ isNull |-> FALSE, text |-> t ]

NullDetails == [ isNull |-> TRUE, distance |-> 0, duration |-> 0 ]


(***************************************************************************)
(* State.                                                                  *)
(***************************************************************************)
VARIABLES
    blackSpots,     \* the black_spots collection as the components see it
    route,          \* scoring harness: the route object under test
    call,           \* scoring harness: the function applied last
    result,         \* scoring harness: what it returned
    hazards,        \* briefing: the argument of getSafetyBriefing
    briefingPc,     \* briefing: "idle", "awaiting" the generative call, "settled"
    aiOutcome,      \* briefing: what the generative call did
    settled,        \* briefing: how the promise of getSafetyBriefing settled
    username,       \* login page: the user name field
    password,       \* login page: the password field
    isAdmin,        \* AuthProvider state
    lastCall,       \* auth: the last login/logout call, its arguments and return
    lastChange,     \* auth: the last call that wrote isAdmin
    activeRoute,    \* app: { start, end } handed to the map as startLocation, endLocation
    stops,          \* app: the stops of the planned route
    stopToAdd,      \* app: the stop awaiting confirmation (<< >> for null)
    routes,         \* map: the stored route list
    selectedRouteIndex, \* map: 0-based index of the selected route
    routeDetails,   \* app: distance and duration of the selected route, or null
    isRoutePlanned, \* app
    safetyBriefing, \* app: the briefing shown, or null
    isSearching,    \* app: the loading flag (onLoading)
    fetches,        \* map: the fetchRoutes calls suspended at an await
    analyses,       \* map: the runSafetyAnalysis calls awaiting getSafetyBriefing
    json,           \* history: the router response the stored list was computed from
    maxPending,     \* how many async calls the environment lets be pending at once
    startInput,     \* app: the start field of the search form
    endInput,       \* app: the destination field of the search form
    currentLocation, \* app: "null", or "located" once geolocation has answered
    locating,       \* app: a getCurrentPosition request is waiting for its callback
    isNavigating,   \* app
    toast,          \* app: the title of the validation toast shown last ("" for none)
    isLoggedIn,     \* useAuth().isLoggedIn
    isAddMode,      \* app: clicks on the map report a black spot
    isCoordAddOpen, \* app: the 'Add by Coords' dialog is open
    coordLat,       \* app: the latitude field of that dialog
    coordLng,       \* app: the longitude field of that dialog
    isProcessingSpot, \* app: a processNewSpotAddition call is running
    newSpotInfo,    \* app: the snapped location of the 'add new spot' dialog (<< >> for null)
    spotToConfirm,  \* app: the nearby spot of the confirm dialog (<< >> for null)
    additions       \* app: the processNewSpotAddition calls awaiting the snap request

scoreVars == << route, call, result >>

briefVars == << hazards, briefingPc, aiOutcome, settled >>

authVars == << username, password, isAdmin, lastCall, lastChange >>

appVars == << activeRoute, stops, stopToAdd, routes, selectedRouteIndex, routeDetails,
             isRoutePlanned, safetyBriefing, isSearching, fetches, analyses, json >>

formVars == << startInput, endInput, currentLocation, locating, isNavigating, toast >>

contribVars == << isLoggedIn, isAddMode, isCoordAddOpen, coordLat, coordLng,
                 isProcessingSpot, newSpotInfo, spotToConfirm, additions >>

uiVars == << maxPending, formVars, contribVars >>

vars == << blackSpots, scoreVars, briefVars, authVars, appVars, uiVars >>

NoJson == [ routes |-> << >>, alternativesEnabled |-> FALSE ]

AppIdle ==
    /\ activeRoute = [ start |-> Str(""), end |-> Str("") ]
    /\ stops = << >> /\ stopToAdd = << >>
    /\ routes = << >> /\ selectedRouteIndex = 0
    /\ routeDetails = NullDetails /\ isRoutePlanned = FALSE
    /\ safetyBriefing = NullBriefing /\ isSearching = FALSE
    /\ fetches = << >> /\ analyses = << >>
    /\ json = NoJson

FormIdle ==
    /\ startInput = "" /\ endInput = "" /\ currentLocation = "null"
    /\ locating = FALSE
    /\ isNavigating = FALSE /\ toast = ""

ContribIdle ==
    /\ isLoggedIn = FALSE /\ isAddMode = FALSE
    /\ isCoordAddOpen = FALSE /\ coordLat = << >> /\ coordLng = << >>
    /\ isProcessingSpot = FALSE
    /\ newSpotInfo = << >> /\ spotToConfirm = << >> /\ additions = << >>

UiIdle == maxPending = MaxInFlight /\ FormIdle /\ ContribIdle

\* The parts of the state a specification does not exercise.
ScoreIdle == route = [ geometry |-> << >>, duration |-> 0 ] /\ call = "none" /\ result = << >>

BriefIdle ==
    /\ hazards = << >>
    /\ briefingPc = "idle"
    /\ aiOutcome = [ kind |-> "none", safetyBriefing |-> << >> ]
    /\ settled = [ kind |-> "none", value |-> << >> ]

NoCall == [ op |-> "none", user |-> "", pass |-> "", returns |-> FALSE, before |-> FALSE ]

AuthIdle ==
    /\ username = "" /\ password = "" /\ isAdmin = FALSE
    /\ lastCall = NoCall /\ lastChange = "none"

(***************************************************************************)
(* Scoring harness: the detection functions applied to every route and     *)
(* every collection within the bounds.                                     *)
(***************************************************************************)
InitScore ==
    /\ blackSpots \in SpotListsWith({ "skid" })
    /\ route \in [ geometry : Geometries, duration : { 1 } ]
    /\ call = "none"
    /\ result = << >>
    /\ BriefIdle /\ AuthIdle /\ AppIdle /\ UiIdle

ApplyCalculateRiskScore ==
    /\ call' = "calculateRiskScore"
    /\ result' = calculateRiskScore(route, blackSpots)
    /\ UNCHANGED << blackSpots, route, briefVars, authVars, appVars, uiVars >>

ApplyRunSafetyAnalysis ==
    /\ call' = "runSafetyAnalysis"
    /\ result' = DetectedSpots(route, blackSpots)
    /\ UNCHANGED << blackSpots, route, briefVars, authVars, appVars, uiVars >>

ApplyCollisionDetectionV1 ==
    /\ call' = "fetchRouteV1"
    /\ result' = CollidingSpots(route, blackSpots)
    /\ UNCHANGED << blackSpots, route, briefVars, authVars, appVars, uiVars >>

ApplySampledDetection ==
    /\ call' = "fetchRouteSampled"
    /\ result' = SampledSpots(route, blackSpots)
    /\ UNCHANGED << blackSpots, route, briefVars, authVars, appVars, uiVars >>

\* haversineDistance on a (spot, route point) pair, in both argument orders.
ApplyHaversine ==
    /\ \E j \in 1..Len(blackSpots), i \in 1..Len(route.geometry) :
          LET a == [ lat |-> blackSpots[j].lat, lon |-> blackSpots[j].lng ]
              b == [ lat |-> route.geometry[i][2], lon |-> route.geometry[i][1] ]
          IN  result' = [ a |-> a, b |-> b,
                          ab |-> haversineDistance(a, b),
                          ba |-> haversineDistance(b, a) ]
    /\ call' = "haversineDistance"
    /\ UNCHANGED << blackSpots, route, briefVars, authVars, appVars, uiVars >>

NextScore ==
    \/ ApplyCalculateRiskScore
    \/ ApplyRunSafetyAnalysis
    \/ ApplyCollisionDetectionV1
    \/ ApplySampledDetection
    \/ ApplyHaversine

SpecScore == InitScore /\ [][NextScore]_vars

(***************************************************************************)
(* What the claims compare the loops with.                                 *)
(***************************************************************************)
\* The metres between a spot and the i-th point of a route.
DistTo(spot, r, i) == SpotDist(spot, << r.geometry[i][2], r.geometry[i][1] >>)

\* Indices of the route points at which the detection test of the
\* alternative-routes component (dist < COLLISION_THRESHOLD) succeeds.
NearPoints(spot, r) ==
    { i \in 1..Len(r.geometry) : DistTo(spot, r, i) < COLLISION_THRESHOLD }

NearSpots(r, spots) == { j \in 1..Len(spots) : NearPoints(spots[j], r) # {} }

\* Spots at most COLLISION_THRESHOLD away from some route point.
SpotsUpTo(r, spots, limit) ==
    { j \in 1..Len(spots) : \E i \in 1..Len(r.geometry) : DistTo(spots[j], r, i) <= limit }

WeightedCount(spots, J) ==
    HighWeight * Cardinality({ j \in J : spots[j].risk_level = "High" })
        + OtherWeight * Cardinality({ j \in J : spots[j].risk_level # "High" })

Range(seq) == { seq[i] : i \in 1..Len(seq) }

NoDuplicates(seq) == \A i, j \in 1..Len(seq) : i # j => seq[i] # seq[j]

\* C1: the risk score of a route is the sum of 10 per 'High' and 5 per other
\* spot over the distinct spots the detection test finds near some point of
\* the route; a spot near several points counts once; the score is 0 exactly
\* when no spot is near.
C1_RiskScoreIsWeightedCount ==
    call = "calculateRiskScore" =>
        /\ result = WeightedCount(blackSpots, NearSpots(route, blackSpots))
        /\ (result = 0 <=> NearSpots(route, blackSpots) = {})

C1_Witness ==
    /\ call = "calculateRiskScore"
    /\ \E j \in 1..Len(blackSpots) : Cardinality(NearPoints(blackSpots[j], route)) >= 2
    /\ result = HighWeight + OtherWeight

\* C4: the hazard list handed to the briefing holds exactly the spots near
\* some point of the route, each once, however many points are near it.
C4_DetectedExactlyNearSpots ==
    /\ call = "runSafetyAnalysis" =>
          /\ Range(result) = { blackSpots[j] : j \in NearSpots(route, blackSpots) }
          /\ NoDuplicates(result)
    /\ call = "fetchRouteV1" =>
          /\ Range(result) =
                { blackSpots[j] : j \in SpotsUpTo(route, blackSpots, COLLISION_THRESHOLD_V1) }
          /\ NoDuplicates(result)

C4_Witness ==
    /\ call = "runSafetyAnalysis"
    /\ \E j \in 1..Len(blackSpots) : Cardinality(NearPoints(blackSpots[j], route)) >= 2
    /\ Len(result) = 1
    /\ Len(blackSpots) = 2

\* C5: a spot at most COLLISION_THRESHOLD (equality included) from some route
\* point is detected, for the risk score and for the briefing alike, and a
\* spot farther away from every point is not.
C5_ThresholdInclusive ==
    /\ call = "calculateRiskScore" =>
          result = WeightedCount(blackSpots,
                                 SpotsUpTo(route, blackSpots, COLLISION_THRESHOLD))
    /\ call = "runSafetyAnalysis" =>
          Range(result) =
              { blackSpots[j] : j \in SpotsUpTo(route, blackSpots, COLLISION_THRESHOLD) }

\* C6: detection compares every route point with every spot: a spot near a
\* route point at any index is detected.
C6_NoPointSkipped ==
    (call \in { "runSafetyAnalysis", "fetchRouteSampled" }) =>
        \A j \in NearSpots(route, blackSpots) : Contains(result, blackSpots[j])

\* C9: the distance is symmetric and non-negative, so the detection test
\* gives the same answer in either argument order.
C9_HaversineSymmetricNonNegative ==
    call = "haversineDistance" =>
        /\ result.ab = result.ba
        /\ result.ab >= 0
        /\ (result.ab < COLLISION_THRESHOLD <=> result.ba < COLLISION_THRESHOLD)

C9_Witness ==
    /\ call = "haversineDistance"
    /\ result.a.lat # result.b.lat
    /\ result.a.lon # result.b.lon
    /\ result.ab > COLLISION_THRESHOLD

(***************************************************************************)
(* getSafetyBriefing as a server action: called, awaiting the generative   *)
(* call, settled.                                                          *)
(***************************************************************************)
InitBriefing ==
    /\ blackSpots = << >>
    /\ hazards \in SpotListsWith(Histories)
    /\ briefingPc = "idle"
    /\ aiOutcome = [ kind |-> "none", safetyBriefing |-> << >> ]
    /\ settled = [ kind |-> "none", value |-> << >> ]
    /\ ScoreIdle /\ AuthIdle /\ AppIdle /\ UiIdle

\* The call: briefingInput is built and generateRouteSafetyBriefing awaited.
CallGetSafetyBriefing ==
    /\ briefingPc = "idle"
    /\ briefingPc' = "awaiting"
    /\ UNCHANGED << blackSpots, hazards, aiOutcome, settled, scoreVars, authVars, appVars, uiVars >>

\* The generative call resolves with a briefing.
AiResolves ==
    /\ briefingPc = "awaiting"
    /\ \E ai \in { o \in AiOutcomes : o.kind = "ok" } :
          /\ aiOutcome' = ai
          /\ settled' = getSafetyBriefing(hazards, ai)
    /\ briefingPc' = "settled"
    /\ UNCHANGED << blackSpots, hazards, scoreVars, authVars, appVars, uiVars >>

\* The generative call rejects, or resolves without output.
AiFails ==
    /\ briefingPc = "awaiting"
    /\ \E ai \in { o \in AiOutcomes : o.kind # "ok" } :
          /\ aiOutcome' = ai
          /\ settled' = getSafetyBriefing(hazards, ai)
    /\ briefingPc' = "settled"
    /\ UNCHANGED << blackSpots, hazards, scoreVars, authVars, appVars, uiVars >>

NextBriefing == CallGetSafetyBriefing \/ AiResolves \/ AiFails

SpecBriefing == InitBriefing /\ [][NextBriefing]_vars

Bullets(text) == SelectSeq(text, LAMBDA seg : seg.kind = "bullet")

Numbers(text) == SelectSeq(text, LAMBDA seg : seg.kind = "num")

\* C7: getSafetyBriefing never fails: it returns a string whether the
\* generative call succeeds or not; on success the model's safetyBriefing,
\* otherwise the hardcoded fallback, never the error.
C7_BriefingNeverFails ==
    briefingPc = "settled" =>
        /\ settled.kind = "returns"
        /\ aiOutcome.kind = "ok" => settled.value = aiOutcome.safetyBriefing
        /\ aiOutcome.kind # "ok" =>
              /\ settled.value # << >>
              /\ settled.value[1].kind = "lit"

C7_Witness ==
    /\ briefingPc = "settled"
    /\ aiOutcome.kind = "rejects"
    /\ Len(hazards) = 2
    /\ settled.kind = "returns"

\* C8: when the generative call fails the briefing depends on the hazard list
\* only: the fixed 'clear' message for an empty list; for n >= 1 hazards the
\* count n and one bullet per hazard, in input order, with its risk level and
\* accident history.
C8_FallbackListsEveryHazard ==
    (briefingPc = "settled" /\ aiOutcome.kind # "ok") =>
        IF Len(hazards) = 0
        THEN settled.value = ClearMessage
        ELSE /\ Numbers(settled.value) = << Num(Len(hazards)) >>
             /\ Len(Bullets(settled.value)) = Len(hazards)
             /\ \A i \in 1..Len(hazards) :
                   /\ Bullets(settled.value)[i].risk_level = hazards[i].risk_level
                   /\ Bullets(settled.value)[i].accident_history = hazards[i].accident_history

C8_Witness ==
    /\ briefingPc = "settled"
    /\ aiOutcome.kind = "no output"
    /\ Len(hazards) = 2
    /\ hazards[1].risk_level = "Medium" /\ hazards[2].risk_level = "High"
    /\ hazards[1].accident_history # hazards[2].accident_history
    /\ Len(Bullets(settled.value)) = 2

(***************************************************************************)
(* The admin login form and the AuthProvider.                              *)
(***************************************************************************)
InitAuth ==
    /\ blackSpots = << >>
    /\ AuthIdle
    /\ ScoreIdle /\ BriefIdle /\ AppIdle /\ UiIdle

SetUsername ==
    /\ \E u \in UserNames : username' = u
    /\ UNCHANGED << blackSpots, password, isAdmin, lastCall, lastChange, scoreVars, briefVars, appVars, uiVars >>

SetPassword ==
    /\ \E p \in Passwords : password' = p
    /\ UNCHANGED << blackSpots, username, isAdmin, lastCall, lastChange, scoreVars, briefVars, appVars, uiVars >>

\* handleAdminLogin: the form's submit handler calls login(username, password).
HandleAdminLogin ==
    LET r == login(username, password, isAdmin)
    IN  /\ isAdmin' = r.isAdmin
        /\ lastCall' = [ op |-> "login", user |-> username, pass |-> password,
                         returns |-> r.returns, before |-> isAdmin ]
        /\ lastChange' = IF r.returns THEN "login" ELSE lastChange
        /\ UNCHANGED << blackSpots, username, password, scoreVars, briefVars, appVars, uiVars >>

Logout ==
    /\ isAdmin' = FALSE
    /\ lastCall' = [ op |-> "logout", user |-> "", pass |-> "",
                     returns |-> FALSE, before |-> isAdmin ]
    /\ lastChange' = "logout"
    /\ UNCHANGED << blackSpots, username, password, scoreVars, briefVars, appVars, uiVars >>

NextAuth == SetUsername \/ SetPassword \/ HandleAdminLogin \/ Logout

SpecAuth == InitAuth /\ [][NextAuth]_vars

\* C10: login returns true and sets isAdmin exactly for ('admin',
\* 'admin@123'); any other pair returns false and leaves isAdmin as it was;
\* logout clears isAdmin; so isAdmin is true only if the last call that wrote
\* it was a login with the right credentials.
C10_HardcodedCredentialCheck ==
    /\ lastCall.op = "login" =>
          /\ lastCall.returns <=> (lastCall.user = "admin" /\ lastCall.pass = "admin@123")
          /\ lastCall.returns => isAdmin
          /\ ~lastCall.returns => isAdmin = lastCall.before
    /\ lastCall.op = "logout" => ~isAdmin
    /\ isAdmin => lastChange = "login"

C10_Witness ==
    /\ lastCall.op = "login" /\ ~lastCall.returns
    /\ lastCall.user = "admin" /\ lastCall.pass = "admin"
    /\ isAdmin /\ lastCall.before

(***************************************************************************)
(* The application: NaviSafeApp and its map component.  A handler runs to  *)
(* completion together with the re-render and the effects it causes; an    *)
(* async function is suspended at each await and resumed by its own step.  *)
(***************************************************************************)
Init ==
    /\ blackSpots \in Collections
    /\ AppIdle
    /\ ScoreIdle /\ BriefIdle /\ AuthIdle /\ UiIdle

Remove(seq, k) == [ i \in 1..(Len(seq) - 1) |-> IF i < k THEN seq[i] ELSE seq[i + 1] ]

\* The async calls suspended at an await.
InFlight == Len(fetches) + Len(analyses)

Details(r) == [ isNull |-> FALSE, distance |-> r.distance, duration |-> r.duration ]

\* The draw-routes effect for the stored list rs and the selection idx: it
\* reports the route details and, when a route is selected, starts
\* runSafetyAnalysis, which clears the briefing, raises the loading flag and
\* awaits getSafetyBriefing.  loading is the flag before the effect, pending
\* the number of calls in flight before it.
DrawRoutes(rs, idx, loading, pending) ==
    IF rs = << >> \/ idx >= Len(rs)
    THEN /\ routeDetails' = NullDetails
         /\ isRoutePlanned' = FALSE
         /\ isSearching' = loading
         /\ analyses' = analyses
    ELSE /\ pending < maxPending
         /\ routeDetails' = Details(rs[idx + 1])
         /\ isRoutePlanned' = TRUE
         /\ isSearching' = TRUE
         /\ analyses' = Append(analyses,
                [ detected |-> DetectedSpots(rs[idx + 1], blackSpots) ])

\* A plausible slip: alternatives are requested whatever the stops.
AlternativesEnabled_always(withStops) == TRUE

\* const alternativesEnabled = stops.length === 0
AlternativesEnabled(withStops) == Len(withStops) = 0

\* A plausible slip: onLoading(true) is signalled before the blank-location
\* test.
FetchRoutesWith_loadsFirst(start, end, withStops, spots) ==
    /\ routes' = << >>
    /\ json' = NoJson
    /\ selectedRouteIndex' = 0
    /\ routeDetails' = NullDetails
    /\ safetyBriefing' = NullBriefing
    /\ isRoutePlanned' = FALSE
    /\ analyses' = analyses
    /\ isSearching' = TRUE
    /\ IF Blank(start) \/ Blank(end)
       THEN fetches' = fetches
       ELSE /\ InFlight < maxPending
            /\ fetches' = Append(fetches,
                  [ pc |-> "geocoding",
                    alternativesEnabled |-> AlternativesEnabled(withStops),
                    spots |-> spots ])

\* The fetch-and-score effect, up to its first await, for the props it is
\* run with (spots is the blackSpots of the render that runs it), followed by
\* the draw-routes effect for the emptied list.
FetchRoutesWith(start, end, withStops, spots) ==
    /\ routes' = << >>
    /\ json' = NoJson
    /\ selectedRouteIndex' = 0
    /\ routeDetails' = NullDetails
    /\ safetyBriefing' = NullBriefing
    /\ isRoutePlanned' = FALSE
    /\ analyses' = analyses
    /\ IF Blank(start) \/ Blank(end)
       THEN /\ isSearching' = isSearching
            /\ fetches' = fetches
       ELSE /\ InFlight < maxPending
            /\ isSearching' = TRUE
            /\ fetches' = Append(fetches,
                  [ pc |-> "geocoding",
                    alternativesEnabled |-> AlternativesEnabled(withStops),
                    spots |-> spots ])

\* The effect run by a handler that leaves the collection as it is.
FetchRoutes(start, end, withStops) == FetchRoutesWith(start, end, withStops, blackSpots)

\* What the form holds when it is submitted: the start field, the
\* destination field and whether the current location has been resolved.
SearchInputs ==
    { [ startInput |-> "", endInput |-> "Alappuzha", located |-> FALSE ],
      [ startInput |-> "Kochi", endInput |-> " ", located |-> FALSE ],
      [ startInput |-> "Kochi", endInput |-> "Alappuzha", located |-> FALSE ],
      [ startInput |-> "My Current Location", endInput |-> "Alappuzha", located |-> TRUE ],
      [ startInput |-> "My Current Location", endInput |-> " ", located |-> TRUE ] }

\* The 'Plan Route' button is disabled while isSearching, and so are both
\* fields, so the form cannot be submitted then.
SearchEnabled == ~isSearching

\* The panel holding the stop list, 'Navigate' and 'Cancel' is rendered only
\* for a planned route while nothing is loading.
RoutePanelShown == isRoutePlanned /\ ~isSearching

\* else if (!startInput.trim() || !endInput.trim()): the branch is reached
\* only when the start is not the resolved current location.
MissingLocations(startIn, endIn, located) ==
    /\ ~(startIn = "My Current Location" /\ located)
    /\ (Blank(Str(startIn)) \/ Blank(Str(endIn)))

\* handleSearch on the form values startIn and endIn, located telling whether
\* currentLocation is set: what it does to the route state.
HandleSearchWith(startIn, endIn, located) ==
    LET startValue == IF startIn = "My Current Location" /\ located
                      THEN CurrentLocation ELSE Str(startIn)
    IN  IF MissingLocations(startIn, endIn, located)
        THEN \* the 'Missing Locations' toast
             UNCHANGED << activeRoute, stops, stopToAdd, routes, selectedRouteIndex,
                          routeDetails, isRoutePlanned, safetyBriefing, isSearching,
                          fetches, analyses, json >>
        ELSE /\ activeRoute' = [ start |-> startValue, end |-> Str(endIn) ]
             /\ stops' = << >>
             /\ FetchRoutes(startValue, Str(endIn), << >>)
             /\ UNCHANGED stopToAdd

HandleSearch ==
    /\ SearchEnabled
    /\ \E in \in SearchInputs : HandleSearchWith(in.startInput, in.endInput, in.located)
    /\ UNCHANGED << blackSpots, scoreVars, briefVars, authVars, uiVars >>

\* handleCancelRoute: what it does to the route state.
CancelRouteState ==
    /\ activeRoute' = [ start |-> Str(""), end |-> Str("") ]
    /\ stops' = << >>
    /\ FetchRoutes(Str(""), Str(""), << >>)
    /\ UNCHANGED stopToAdd

HandleCancelRoute ==
    /\ RoutePanelShown
    /\ CancelRouteState
    /\ UNCHANGED << blackSpots, scoreVars, briefVars, authVars, uiVars >>

StopPoints == { <<1, 0>> }

\* handleMapClick outside add mode: a planned route makes the click a stop.
HandleMapClick ==
    /\ ~isAddMode
    /\ isRoutePlanned
    /\ \E p \in StopPoints : stopToAdd' = << p >>
    /\ UNCHANGED << activeRoute, stops, routes, selectedRouteIndex, routeDetails,
                    isRoutePlanned, safetyBriefing, isSearching, fetches, analyses, json,
                    blackSpots, scoreVars, briefVars, authVars, uiVars >>

HandleAddStopConfirm ==
    /\ stopToAdd # << >>
    /\ Len(stops) < MaxStops
    /\ stops' = stops \o stopToAdd
    /\ stopToAdd' = << >>
    /\ FetchRoutes(activeRoute.start, activeRoute.end, stops \o stopToAdd)
    /\ UNCHANGED << activeRoute, blackSpots, scoreVars, briefVars, authVars, uiVars >>

\* handleRemoveStop: the stop at indexToRemove leaves the list.
HandleRemoveStop ==
    /\ RoutePanelShown
    /\ \E indexToRemove \in 1..Len(stops) :
          /\ stops' = Remove(stops, indexToRemove)
          /\ FetchRoutes(activeRoute.start, activeRoute.end, Remove(stops, indexToRemove))
    /\ UNCHANGED << activeRoute, stopToAdd, blackSpots, scoreVars, briefVars, authVars, uiVars >>

GeocodeResults == { "found", "none", "throws" }

\* A plausible slip: the failure path without the finally's onLoading(false).
FetchFails_keepsLoading(k) ==
    /\ routes' = << >>
    /\ json' = NoJson
    /\ fetches' = Remove(fetches, k)
    /\ DrawRoutes(<< >>, selectedRouteIndex, isSearching, InFlight - 1)
    /\ UNCHANGED << activeRoute, stops, stopToAdd, selectedRouteIndex, safetyBriefing >>

\* catch: setRoutes([]), onMapError(message); finally: onLoading(false); then
\* the draw-routes effect for the empty list.
FetchFails(k) ==
    /\ routes' = << >>
    /\ json' = NoJson
    /\ fetches' = Remove(fetches, k)
    /\ DrawRoutes(<< >>, selectedRouteIndex, FALSE, InFlight - 1)
    /\ UNCHANGED << activeRoute, stops, stopToAdd, selectedRouteIndex, safetyBriefing >>

\* The awaits of provider.search settle (the start is searched only when it
\* is a string; nothing is read or written between the two searches): both
\* places are found, or one is missing ('One or both locations could not be
\* found.') or a search rejects.
GeocodingSettles ==
    /\ \E k \in 1..Len(fetches), res \in GeocodeResults :
          /\ fetches[k].pc = "geocoding"
          /\ IF res # "found" THEN FetchFails(k)
             ELSE /\ fetches' = [ fetches EXCEPT ![k].pc = "routing" ]
                  /\ UNCHANGED << activeRoute, stops, stopToAdd, routes, selectedRouteIndex,
                                  routeDetails, isRoutePlanned, safetyBriefing, isSearching,
                                  analyses, json >>
    /\ UNCHANGED << blackSpots, scoreVars, briefVars, authVars, uiVars >>

\* await fetch(url) / res.json() rejects, or the response holds no route.
RouterFails ==
    /\ \E k \in 1..Len(fetches) :
          /\ fetches[k].pc = "routing"
          /\ FetchFails(k)
    /\ UNCHANGED << blackSpots, scoreVars, briefVars, authVars, uiVars >>

\* The router answers with at least one route: score, order, store, select
\* index 0, onLoading(false); then the draw-routes effect for the new list.
RouterAnswers ==
    /\ \E k \in 1..Len(fetches) :
       \E response \in RouterResponses(fetches[k].alternativesEnabled) :
          /\ fetches[k].pc = "routing"
          /\ LET rs == ScoredRoutes(response, fetches[k].alternativesEnabled,
                                    fetches[k].spots)
             IN  /\ routes' = rs
                 /\ selectedRouteIndex' = 0
                 /\ DrawRoutes(rs, 0, FALSE, InFlight - 1)
                 /\ safetyBriefing' = NullBriefing
          /\ json' = [ routes |-> response,
                       alternativesEnabled |-> fetches[k].alternativesEnabled ]
          /\ fetches' = Remove(fetches, k)
    /\ UNCHANGED << activeRoute, stops, stopToAdd, blackSpots, scoreVars, briefVars, authVars, uiVars >>

\* A click on the polyline of an alternative route.
ClickRoute ==
    /\ \E index \in 0..(Len(routes) - 1) :
          /\ index # selectedRouteIndex
          /\ selectedRouteIndex' = index
          /\ DrawRoutes(routes, index, isSearching, InFlight)
    /\ safetyBriefing' = NullBriefing
    /\ UNCHANGED << activeRoute, stops, stopToAdd, routes, fetches, json,
                    blackSpots, scoreVars, briefVars, authVars, uiVars >>

\* How the await of getSafetyBriefing can end: the server action returns
\* what getSafetyBriefing computed for either outcome of the generative
\* call, or the call to the server itself rejects.
AnalysisOutcomes ==
    { [ delivered |-> TRUE,
        ai |-> [ kind |-> "ok", safetyBriefing |-> << Lit("Drive with extra caution.") >> ] ],
      [ delivered |-> TRUE, ai |-> [ kind |-> "rejects", safetyBriefing |-> << >> ] ],
      [ delivered |-> FALSE, ai |-> [ kind |-> "rejects", safetyBriefing |-> << >> ] ] }

\* await getSafetyBriefing(...) settles: onSafetyBriefing(briefing), or the
\* catch's 'Could not retrieve safety briefing.'; finally onLoading(false).
AnalysisSettles ==
    /\ \E k \in 1..Len(analyses), o \in AnalysisOutcomes :
          /\ safetyBriefing' =
                IF o.delivered /\ getSafetyBriefing(analyses[k].detected, o.ai).kind = "returns"
                THEN BriefingText(getSafetyBriefing(analyses[k].detected, o.ai).value)
                ELSE BriefingText(<< Lit("Could not retrieve safety briefing.") >>)
          /\ analyses' = Remove(analyses, k)
    /\ isSearching' = FALSE
    /\ UNCHANGED << activeRoute, stops, stopToAdd, routes, selectedRouteIndex, routeDetails,
                    isRoutePlanned, fetches, json,
                    blackSpots, scoreVars, briefVars, authVars, uiVars >>

Next ==
    \/ HandleSearch
    \/ HandleCancelRoute
    \/ HandleMapClick
    \/ HandleAddStopConfirm
    \/ HandleRemoveStop
    \/ GeocodingSettles
    \/ RouterFails
    \/ RouterAnswers
    \/ ClickRoute
    \/ AnalysisSettles

Spec == Init /\ [][Next]_vars

(***************************************************************************)
(* The stored route list and the selection.                                *)
(***************************************************************************)
\* a ranks strictly before b: lower risk score, or the same score and a
\* shorter duration.
Better(a, b) ==
    \/ a.riskScore < b.riskScore
    \/ a.riskScore = b.riskScore /\ a.duration < b.duration

\* The route object without the riskScore the program added.
Unscored(r) == [ geometry |-> r.geometry, duration |-> r.duration, distance |-> r.distance ]

Count(seq, x) == Cardinality({ i \in 1..Len(seq) : seq[i] = x })

\* C2: after a successful fetch with alternatives the stored list is ordered
\* by (riskScore ascending, duration ascending) and is a permutation of the
\* routes the router returned.
C2_RoutesOrderedByRiskThenDuration ==
    (routes # << >> /\ json.alternativesEnabled) =>
        /\ \A i, j \in 1..Len(routes) :
              i < j =>
                 \/ routes[i].riskScore < routes[j].riskScore
                 \/ /\ routes[i].riskScore = routes[j].riskScore
                    /\ routes[i].duration <= routes[j].duration
        /\ Len(routes) = Len(json.routes)
        /\ \A r \in Range(json.routes) :
              Count(json.routes, r) =
                  Cardinality({ i \in 1..Len(routes) : Unscored(routes[i]) = r })

C2_Witness ==
    /\ Len(routes) = 2 /\ json.alternativesEnabled
    /\ routes[1].riskScore = routes[2].riskScore
    /\ routes[1].duration < routes[2].duration
    /\ json.routes[1] = Unscored(routes[2])
    /\ routes[1].riskScore > 0

\* C3 as amended: every successful fetch selects index 0 of the stored list,
\* and no stored route ranks strictly before it (lower risk score, or the
\* same score and a shorter duration); the selection changes only by a click
\* on an alternative route or by a fetch putting it back to index 0.
C3_DefaultSelectionIsSafest ==
    [][ /\ \/ /\ selectedRouteIndex' = 0
              /\ \A j \in 1..Len(routes') : ~Better(routes'[j], routes'[1])
           \/ ~RouterAnswers
        /\ \/ selectedRouteIndex' = selectedRouteIndex
           \/ selectedRouteIndex' = 0
           \/ ClickRoute ]_vars

\* The user has clicked the riskier, faster alternative of a fetched list.
C3_Witness ==
    /\ Len(routes) = 2 /\ selectedRouteIndex = 1
    /\ routes[1].riskScore < routes[2].riskScore
    /\ routes[1].duration > routes[2].duration

\* C3 as stated: index 0 is selected and ranks first after every successful
\* fetch, and the selection changes only when the user clicks an alternative.
C3_SelectionChangesOnlyByClick ==
    [][ /\ \/ /\ selectedRouteIndex' = 0
              /\ \A j \in 1..Len(routes') : ~Better(routes'[j], routes'[1])
           \/ ~RouterAnswers
        /\ \/ selectedRouteIndex' = selectedRouteIndex
           \/ ClickRoute ]_vars

(***************************************************************************)
(* Stops and alternatives.                                                 *)
(***************************************************************************)
\* C11: a fetch started while the stop list is non-empty asks the router
\* with alternatives=false, one started without stops asks with
\* alternatives=true; and a list stored from an answer to a request without
\* alternatives holds exactly one route, the first one returned, with
\* index 0 selected.
C11_StopsDisableAlternatives ==
    [][ /\ Len(fetches') > Len(fetches) =>
              fetches'[Len(fetches')].alternativesEnabled = (stops' = << >>)
        /\ (json' # NoJson /\ ~json'.alternativesEnabled) =>
              /\ Len(routes') = 1
              /\ Unscored(routes'[1]) = json'.routes[1]
              /\ selectedRouteIndex' = 0 ]_vars

C11_Witness ==
    /\ stops # << >>
    /\ json # NoJson /\ ~json.alternativesEnabled
    /\ Len(routes) = 1 /\ routes[1].riskScore > 0
    /\ isRoutePlanned

(***************************************************************************)
(* Contributing black spots: add mode, the coordinate dialog and           *)
(* processNewSpotAddition.  A text field is the sequence of its            *)
(* characters.                                                             *)
(***************************************************************************)
Digits == << "0", "1", "2", "3", "4", "5", "6", "7", "8", "9" >>

IsDigit(c) == \E k \in 1..Len(Digits) : Digits[k] = c

DigitValue(c) == (CHOOSE k \in 1..Len(Digits) : Digits[k] = c) - 1

RECURSIVE SkipSpaces(_, _)
SkipSpaces(text, i) ==
    IF i <= Len(text) /\ text[i] = " " THEN SkipSpaces(text, i + 1) ELSE i

RECURSIVE DigitRun(_, _, _, _)
\* The longest run of digits from position i on: its value and its length.
DigitRun(text, i, value, count) ==
    IF i <= Len(text) /\ IsDigit(text[i])
    THEN DigitRun(text, i + 1, value * 10 + DigitValue(text[i]), count + 1)
    ELSE [ value |-> value, count |-> count ]

NaN == [ isNaN |-> TRUE, value |-> 0 ]

\* parseFloat on texts without fraction or exponent: leading spaces, an
\* optional sign, the longest run of digits; what follows is ignored; NaN
\* when there is no digit.
parseFloat(text) ==
    LET start == SkipSpaces(text, 1)
        signed == start <= Len(text) /\ text[start] \in { "-", "+" }
        run == DigitRun(text, IF signed THEN start + 1 ELSE start, 0, 0)
    IN  IF run.count = 0 THEN NaN
        ELSE [ isNaN |-> FALSE,
               value |-> IF signed /\ text[start] = "-" THEN 0 - run.value ELSE run.value ]

\* A plausible slip: the limits themselves are refused.
InvalidCoordinates_exclusive(lat, lng) ==
    \/ lat.isNaN \/ lng.isNaN
    \/ lat.value <= 0 - LatLimit \/ lat.value >= LatLimit
    \/ lng.value <= 0 - LngLimit \/ lng.value >= LngLimit

\* isNaN(lat) || isNaN(lng) || lat < -90 || lat > 90 || lng < -180 || lng > 180
InvalidCoordinates(lat, lng) ==
    \/ lat.isNaN \/ lng.isNaN
    \/ lat.value < 0 - LatLimit \/ lat.value > LatLimit
    \/ lng.value < 0 - LngLimit \/ lng.value > LngLimit

\* What the user types into the two fields of the coordinate dialog.
LatTexts ==
    { << >>, << "x" >>, << "9", "0" >>, << "-", "9", "0" >>, << "9", "1" >>,
      << " ", "4", "5", "x" >> }

LngTexts == { << >>, << "1", "8", "0" >>, << "-", "1", "8", "1" >>, << "7" >> }

\* Where the road-snapping service can put a reported location.
SnapPoints == { <<0, 0>>, <<1, 0>> }

SnapOutcomes ==
    { [ ok |-> FALSE, location |-> <<0, 0>> ] }
        \cup { [ ok |-> TRUE, location |-> p ] : p \in SnapPoints }

RECURSIVE FindNearby(_, _, _)
\* blackSpots?.find(spot => haversineDistance(spot, snapped) < NEARBY_THRESHOLD)
FindNearby(spots, j, snapped) ==
    IF j > Len(spots) THEN << >>
    ELSE IF haversineDistance([ lat |-> spots[j].lat, lon |-> spots[j].lng ],
                              [ lat |-> snapped[2], lon |-> snapped[1] ]) < NEARBY_THRESHOLD
         THEN << spots[j] >>
         ELSE FindNearby(spots, j + 1, snapped)

\* The state the contribution handlers leave alone.
besideContrib ==
    << scoreVars, briefVars, authVars, appVars, maxPending,
       startInput, endInput, currentLocation, locating, isNavigating >>

\* The synchronous part of processNewSpotAddition: nothing when a call is
\* running; else the flag, the 'Verifying Location...' toast and the snap
\* request, with the collection the handler was rendered with.
ProcessNewSpotAddition(latlng) ==
    IF isProcessingSpot
    THEN UNCHANGED << isProcessingSpot, toast, additions >>
    ELSE /\ isProcessingSpot' = TRUE
         /\ toast' = "Verifying Location..."
         /\ additions' = Append(additions, [ latlng |-> latlng, spots |-> blackSpots ])

\* The login page (another route: the application is mounted afresh).
LoginUser ==
    /\ ~isLoggedIn
    /\ isLoggedIn' = TRUE
    /\ isAddMode' = FALSE /\ isCoordAddOpen' = FALSE
    /\ coordLat' = << >> /\ coordLng' = << >>
    /\ isProcessingSpot' = FALSE
    /\ newSpotInfo' = << >> /\ spotToConfirm' = << >> /\ additions' = << >>
    /\ toast' = ""
    /\ UNCHANGED << blackSpots, besideContrib >>

\* The Logout button of the header.
LogoutUser ==
    /\ isLoggedIn
    /\ isLoggedIn' = FALSE
    /\ UNCHANGED << isAddMode, isCoordAddOpen, coordLat, coordLng, isProcessingSpot,
                    newSpotInfo, spotToConfirm, additions, toast,
                    blackSpots, besideContrib >>

\* disabled={isSearching || isProcessingSpot || !isLoggedIn}
ContributeEnabled == ~isSearching /\ ~isProcessingSpot /\ isLoggedIn

\* The 'Add on Map' / 'Cancel' button.
ToggleAddMode ==
    /\ ContributeEnabled
    /\ isAddMode' = ~isAddMode
    /\ UNCHANGED << isLoggedIn, isCoordAddOpen, coordLat, coordLng, isProcessingSpot,
                    newSpotInfo, spotToConfirm, additions, toast,
                    blackSpots, besideContrib >>

\* The 'Add by Coords' button.
OpenCoordDialog ==
    /\ ContributeEnabled
    /\ ~isCoordAddOpen
    /\ isCoordAddOpen' = TRUE
    /\ UNCHANGED << isLoggedIn, isAddMode, coordLat, coordLng, isProcessingSpot,
                    newSpotInfo, spotToConfirm, additions, toast,
                    blackSpots, besideContrib >>

SetCoordLat ==
    /\ isCoordAddOpen
    /\ \E text \in LatTexts : coordLat' = text
    /\ UNCHANGED << isLoggedIn, isAddMode, isCoordAddOpen, coordLng, isProcessingSpot,
                    newSpotInfo, spotToConfirm, additions, toast,
                    blackSpots, besideContrib >>

SetCoordLng ==
    /\ isCoordAddOpen
    /\ \E text \in LngTexts : coordLng' = text
    /\ UNCHANGED << isLoggedIn, isAddMode, isCoordAddOpen, coordLat, isProcessingSpot,
                    newSpotInfo, spotToConfirm, additions, toast,
                    blackSpots, besideContrib >>

\* onOpenChange(false) of the coordinate dialog (Cancel, Escape).
CloseCoordDialog ==
    /\ isCoordAddOpen
    /\ isCoordAddOpen' = FALSE
    /\ coordLat' = << >> /\ coordLng' = << >>
    /\ UNCHANGED << isLoggedIn, isAddMode, isProcessingSpot,
                    newSpotInfo, spotToConfirm, additions, toast,
                    blackSpots, besideContrib >>

\* The 'Check Location' button: handleSubmitCoordinates.  The button is an
\* AlertDialogAction, a component outside this code: after the handler it
\* may or may not call the dialog's onOpenChange(false), which closes the
\* dialog and empties both fields.
HandleSubmitCoordinates ==
    /\ isCoordAddOpen
    /\ \E closes \in BOOLEAN :
          LET lat == parseFloat(coordLat)
              lng == parseFloat(coordLng)
          IN  /\ IF InvalidCoordinates(lat, lng)
                 THEN /\ toast' = "Invalid Coordinates"
                      /\ isCoordAddOpen' = ~closes
                      /\ UNCHANGED << isProcessingSpot, additions >>
                 ELSE /\ ProcessNewSpotAddition([ lat |-> lat.value, lng |-> lng.value ])
                      /\ isCoordAddOpen' = FALSE
              /\ coordLat' = IF closes THEN << >> ELSE coordLat
              /\ coordLng' = IF closes THEN << >> ELSE coordLng
    /\ UNCHANGED << isLoggedIn, isAddMode, newSpotInfo, spotToConfirm,
                    blackSpots, besideContrib >>

\* The snap request of the addition settles with outcome o: the catch's
\* 'Could Not Add Spot' toast, or the confirm dialog for the first nearby
\* spot of the list the handler holds, or the 'add new spot' dialog.
SnapSettlesWith(k, o) ==
    /\ k \in 1..Len(additions)
    /\ IF ~o.ok
       THEN /\ toast' = "Could Not Add Spot"
            /\ UNCHANGED << newSpotInfo, spotToConfirm >>
       ELSE LET nearbySpot == FindNearby(additions[k].spots, 1, o.location)
            IN  /\ toast' = toast
                /\ IF nearbySpot # << >>
                   THEN spotToConfirm' = nearbySpot /\ UNCHANGED newSpotInfo
                   ELSE /\ newSpotInfo' = << [ lat |-> o.location[2], lng |-> o.location[1] ] >>
                        /\ UNCHANGED spotToConfirm
    /\ isProcessingSpot' = FALSE
    /\ additions' = Remove(additions, k)
    /\ UNCHANGED << isLoggedIn, isAddMode, isCoordAddOpen, coordLat, coordLng,
                    blackSpots, besideContrib >>

SnapSettles == \E k \in 1..Len(additions), o \in SnapOutcomes : SnapSettlesWith(k, o)

\* onOpenChange of the 'add new spot' dialog.
CloseNewSpotDialog ==
    /\ newSpotInfo # << >>
    /\ newSpotInfo' = << >>
    /\ UNCHANGED << isLoggedIn, isAddMode, isCoordAddOpen, coordLat, coordLng,
                    isProcessingSpot, spotToConfirm, additions, toast,
                    blackSpots, besideContrib >>

\* handleSaveNewSpot with a description: addDoc is sent (the collection
\* answers with a later snapshot), the dialog closes and add mode ends.
HandleSaveNewSpot ==
    /\ newSpotInfo # << >>
    /\ newSpotInfo' = << >>
    /\ isAddMode' = FALSE
    /\ UNCHANGED << isLoggedIn, isCoordAddOpen, coordLat, coordLng,
                    isProcessingSpot, spotToConfirm, additions, toast,
                    blackSpots, besideContrib >>

\* handleConfirmIncrement, or onOpenChange of the confirm dialog.
CloseConfirmDialog ==
    /\ spotToConfirm # << >>
    /\ spotToConfirm' = << >>
    /\ UNCHANGED << isLoggedIn, isAddMode, isCoordAddOpen, coordLat, coordLng,
                    isProcessingSpot, newSpotInfo, additions, toast,
                    blackSpots, besideContrib >>

\* handleMapClick in add mode.
HandleMapClickAddMode ==
    /\ isAddMode
    /\ \E latlng \in StopPoints :
          ProcessNewSpotAddition([ lat |-> latlng[2], lng |-> latlng[1] ])
    /\ UNCHANGED << isLoggedIn, isAddMode, isCoordAddOpen, coordLat, coordLng,
                    newSpotInfo, spotToConfirm, blackSpots, besideContrib >>

\* onSnapshot of the black_spots collection delivers another list; the
\* fetch-and-score effect of the map depends on it.
CollectionChanges ==
    /\ \E spots \in Collections :
          /\ spots # blackSpots
          /\ blackSpots' = spots
          /\ FetchRoutesWith(activeRoute.start, activeRoute.end, stops, spots)
    /\ UNCHANGED << activeRoute, stops, stopToAdd, scoreVars, briefVars, authVars, uiVars >>

InitContribute ==
    /\ blackSpots \in Collections
    /\ AppIdle /\ ScoreIdle /\ BriefIdle /\ AuthIdle /\ UiIdle

NextContribute ==
    \/ LoginUser
    \/ LogoutUser
    \/ ToggleAddMode
    \/ OpenCoordDialog
    \/ SetCoordLat
    \/ SetCoordLng
    \/ CloseCoordDialog
    \/ HandleSubmitCoordinates
    \/ HandleMapClickAddMode
    \/ SnapSettles
    \/ CloseNewSpotDialog
    \/ HandleSaveNewSpot
    \/ CloseConfirmDialog
    \/ CollectionChanges

SpecContribute == InitContribute /\ [][NextContribute]_vars

(***************************************************************************)
(* What the contribution claims say.                                       *)
(***************************************************************************)
\* The spots of a list less than NEARBY_THRESHOLD metres from a location.
SpotsNearby(spots, location) ==
    { j \in 1..Len(spots) :
        SpotDist(spots[j], << location[2], location[1] >>) < NEARBY_THRESHOLD }

AsSpotInfo(location) == [ lat |-> location[2], lng |-> location[1] ]

\* C12: a successful run of processNewSpotAddition opens the 'add new spot'
\* dialog at the snapped location only if no black spot of the collection is
\* within NEARBY_THRESHOLD of it, and otherwise opens the confirm dialog for
\* a spot within NEARBY_THRESHOLD; it sets exactly one of the two, and a run
\* whose snapping fails sets neither.
C12_ReportsDedupedByProximity ==
    [][ \A k \in 1..Len(additions), o \in SnapOutcomes :
           SnapSettlesWith(k, o) =>
              IF o.ok
              THEN \/ /\ newSpotInfo' = << AsSpotInfo(o.location) >>
                      /\ spotToConfirm' = spotToConfirm
                      /\ SpotsNearby(blackSpots, o.location) = {}
                   \/ /\ spotToConfirm' # << >>
                      /\ newSpotInfo' = newSpotInfo
                      /\ SpotDist(spotToConfirm'[1], << o.location[2], o.location[1] >>)
                            < NEARBY_THRESHOLD
              ELSE UNCHANGED << newSpotInfo, spotToConfirm >> ]_vars

\* C13: a black-spot addition is started only while isLoggedIn is true.
C13_AdditionRequiresLogin ==
    [][ Len(additions') > Len(additions) => isLoggedIn ]_vars

\* Both texts parse to numbers, the latitude in [-90, 90] and the longitude
\* in [-180, 180].
ValidCoordinateTexts(latText, lngText) ==
    /\ ~parseFloat(latText).isNaN /\ ~parseFloat(lngText).isNaN
    /\ parseFloat(latText).value \in (0 - LatLimit)..LatLimit
    /\ parseFloat(lngText).value \in (0 - LngLimit)..LngLimit

StartTexts == { "", "Kochi", "My Current Location" }

EndTexts == { "", " ", "Alappuzha" }

besideForm == << blackSpots, scoreVars, briefVars, authVars, maxPending, contribVars >>

\* The start field is disabled while isSearching.
SetStartInput ==
    /\ ~isSearching
    /\ \E t \in StartTexts : startInput' = t
    /\ UNCHANGED << endInput, currentLocation, locating, isNavigating, toast,
                    appVars, besideForm >>

SetEndInput ==
    /\ ~isSearching
    /\ \E t \in EndTexts : endInput' = t
    /\ UNCHANGED << startInput, currentLocation, locating, isNavigating, toast,
                    appVars, besideForm >>

\* handleLocateUser up to the call of getCurrentPosition.
HandleLocateUser ==
    /\ ~isSearching
    /\ ~locating
    /\ isSearching' = TRUE
    /\ locating' = TRUE
    /\ UNCHANGED << startInput, endInput, currentLocation, isNavigating, toast,
                    activeRoute, stops, stopToAdd, routes, selectedRouteIndex,
                    routeDetails, isRoutePlanned, safetyBriefing, fetches, analyses,
                    json, besideForm >>

\* The success or the error callback of getCurrentPosition.
LocationSettles ==
    /\ locating
    /\ locating' = FALSE
    /\ isSearching' = FALSE
    /\ \E found \in BOOLEAN :
          IF found
          THEN /\ currentLocation' = "located"
               /\ startInput' = "My Current Location"
               /\ toast' = "Location Found"
          ELSE /\ toast' = "Location Error"
               /\ UNCHANGED << currentLocation, startInput >>
    /\ UNCHANGED << endInput, isNavigating,
                    activeRoute, stops, stopToAdd, routes, selectedRouteIndex,
                    routeDetails, isRoutePlanned, safetyBriefing, fetches, analyses,
                    json, besideForm >>

HandleToggleNavigation ==
    /\ RoutePanelShown
    /\ isNavigating' = ~isNavigating
    /\ toast' = IF isNavigating THEN "Navigation Stopped" ELSE "Navigation Started"
    /\ UNCHANGED << startInput, endInput, currentLocation, locating, appVars, besideForm >>

\* handleSearch as the form's onSubmit, reading the fields.
SubmitSearch ==
    /\ SearchEnabled
    /\ HandleSearchWith(startInput, endInput, currentLocation # "null")
    /\ isAddMode' = FALSE
    /\ IF MissingLocations(startInput, endInput, currentLocation # "null")
       THEN toast' = "Missing Locations" /\ isNavigating' = isNavigating
       ELSE toast' = toast /\ isNavigating' = FALSE
    /\ UNCHANGED << startInput, endInput, currentLocation, locating,
                    blackSpots, scoreVars, briefVars, authVars, maxPending,
                    isLoggedIn, isCoordAddOpen, coordLat, coordLng, isProcessingSpot,
                    newSpotInfo, spotToConfirm, additions >>

\* handleCancelRoute as the 'Cancel' button's onClick.
CancelRoute ==
    /\ RoutePanelShown
    /\ CancelRouteState
    /\ startInput' = "" /\ endInput' = ""
    /\ isNavigating' = FALSE
    /\ toast' = "Route Cleared"
    /\ UNCHANGED << currentLocation, locating, besideForm >>

InitSearch ==
    /\ blackSpots \in Collections
    /\ AppIdle
    /\ ScoreIdle /\ BriefIdle /\ AuthIdle /\ UiIdle

NextSearch ==
    \/ SetStartInput
    \/ SetEndInput
    \/ HandleLocateUser
    \/ LocationSettles
    \/ SubmitSearch
    \/ HandleToggleNavigation
    \/ CancelRoute
    \/ GeocodingSettles
    \/ RouterFails
    \/ RouterAnswers
    \/ AnalysisSettles

SpecSearch == InitSearch /\ [][NextSearch]_vars

(***************************************************************************)
(* C14. handleSearch replaces activeRoute only if the destination input is *)
(* non-blank and the start is a non-blank string or the resolved current   *)
(* location; otherwise it shows the 'Missing Locations' toast and leaves   *)
(* activeRoute, stops, routeDetails, safetyBriefing, isRoutePlanned and    *)
(* isNavigating unchanged.                                                 *)
(***************************************************************************)
BothProvided ==
    /\ ~Blank(Str(endInput))
    /\ \/ ~Blank(Str(startInput))
       \/ startInput = "My Current Location" /\ currentLocation # "null"

C14_SearchNeedsBothLocations ==
    [][ \/ ~SubmitSearch
        \/ /\ BothProvided
           /\ activeRoute'.end = Str(endInput)
        \/ /\ ~BothProvided
           /\ toast' = "Missing Locations"
           /\ UNCHANGED << activeRoute, stops, routeDetails, safetyBriefing,
                           isRoutePlanned, isNavigating >> ]_vars

(***************************************************************************)
(* The application with the promises its async functions await settling:   *)
(* a geocoding search, a routing request and a briefing request each end,  *)
(* by an answer or by an error.                                            *)
(***************************************************************************)
SpecSettling ==
    /\ Spec
    /\ WF_vars(GeocodingSettles)
    /\ WF_vars(RouterFails \/ RouterAnswers)
    /\ WF_vars(AnalysisSettles)

(***************************************************************************)
(* C16. Every route fetch and every safety analysis that signalled         *)
(* onLoading(true) signals onLoading(false) when it ends, by success or by *)
(* a throw, and it does end; so isSearching is false once no operation is  *)
(* in flight.  (A fetch whose routes are stored hands over to the safety   *)
(* analysis of the selected route, which raises the flag again in the same *)
(* step.)                                                                  *)
(***************************************************************************)
C16_LoadingFlagIsLowered ==
    /\ [](InFlight = 0 /\ ~locating => ~isSearching)
    /\ [][ /\ Len(fetches') < Len(fetches) =>
                ~isSearching' \/ Len(analyses') > Len(analyses)
           /\ Len(analyses') < Len(analyses) => ~isSearching' ]_vars
    /\ (InFlight > 0) ~> ~isSearching

\* A failed fetch has ended with nothing else in flight and the flag lowered.
C16_Witness ==
    /\ activeRoute.end = Str("Alappuzha")
    /\ InFlight = 0
    /\ routes = << >>
    /\ ~isSearching

(***************************************************************************)
(* The application with async calls that overlap: up to MaxOverlap calls   *)
(* are suspended at an await at once, and the black_spots collection       *)
(* changes under the map.  Neither effect of the map returns a cleanup, so *)
(* a call started by an earlier run of an effect resumes as if it were the *)
(* only one.                                                               *)
(***************************************************************************)
InitOverlap ==
    /\ blackSpots \in Collections
    /\ AppIdle
    /\ ScoreIdle /\ BriefIdle /\ AuthIdle
    /\ maxPending = MaxOverlap /\ FormIdle /\ ContribIdle

NextOverlap ==
    \/ HandleSearch
    \/ HandleCancelRoute
    \/ HandleMapClick
    \/ HandleAddStopConfirm
    \/ HandleRemoveStop
    \/ CollectionChanges
    \/ GeocodingSettles
    \/ RouterFails
    \/ RouterAnswers
    \/ ClickRoute
    \/ AnalysisSettles

SpecOverlap == InitOverlap /\ [][NextOverlap]_vars

(***************************************************************************)
(* C17. Once all route fetches have completed, the stored route list is    *)
(* the result of the most recently started fetch.  A fetch is started each *)
(* time one of its inputs changes, so the most recently started fetch is   *)
(* the one that ran with the current inputs: blank locations store no      *)
(* route, and otherwise the stored list is the router's routes scored      *)
(* against the current blackSpots, with alternatives as the current stops  *)
(* allow.                                                                  *)
(***************************************************************************)
C17_LatestFetchWins ==
    fetches = << >> /\ routes # << >> =>
        /\ ~Blank(activeRoute.start) /\ ~Blank(activeRoute.end)
        /\ json.alternativesEnabled = AlternativesEnabled(stops)
        /\ routes = ScoredRoutes(json.routes, json.alternativesEnabled, blackSpots)

(***************************************************************************)
(* C18. A non-null safety briefing displayed while no safety analysis is   *)
(* in flight was computed from the currently selected route and the        *)
(* current blackSpots: it is what runSafetyAnalysis shows for the spots    *)
(* detected on that route, for one of the ways its request can end.        *)
(***************************************************************************)
BriefingsFor(detected) ==
    { IF o.delivered /\ getSafetyBriefing(detected, o.ai).kind = "returns"
      THEN BriefingText(getSafetyBriefing(detected, o.ai).value)
      ELSE BriefingText(<< Lit("Could not retrieve safety briefing.") >>) :
      o \in AnalysisOutcomes }

\* {safetyBriefing && !isSearching && ( ... )}
BriefingDisplayed == ~safetyBriefing.isNull /\ ~isSearching

C18_BriefingMatchesSelection ==
    BriefingDisplayed /\ analyses = << >> =>
        /\ selectedRouteIndex < Len(routes)
        /\ safetyBriefing \in
              BriefingsFor(DetectedSpots(routes[selectedRouteIndex + 1], blackSpots))

(***************************************************************************)
(* C19. isSearching is true in every state in which a route fetch or a     *)
(* safety analysis is in flight.                                           *)
(***************************************************************************)
C19_LoadingWhileInFlight == InFlight > 0 => isSearching

(***************************************************************************)
(* C20. After handleCancelRoute and until the next handleSearch (that is,  *)
(* while activeRoute holds the two empty strings the cancel stored),       *)
(* isRoutePlanned is false, routeDetails and safetyBriefing are null and   *)
(* no route is stored.                                                     *)
(***************************************************************************)
C20_CancelledStaysCancelled ==
    activeRoute = [ start |-> Str(""), end |-> Str("") ] =>
        /\ ~isRoutePlanned
        /\ routeDetails = NullDetails
        /\ safetyBriefing = NullBriefing
        /\ routes = << >>

(***************************************************************************)
(* The route fetch with its error channel: what fetchRoutes throws, what   *)
(* its catch passes to onMapError, and the 'Route Error' toast the         *)
(* application shows for a non-empty message (toast then holds the         *)
(* message).  The form is driven through its fields.                       *)
(***************************************************************************)
Error(message) == [ message |-> message ]

\* What a rejected request carries: an error with or without a message.
Rejections == { Error(""), Error("Failed to fetch") }

\* What the try block throws when geocoding does not deliver both places.
GeocodeThrows(res) ==
    IF res = "none"
    THEN { Error("One or both locations could not be found.") }
    ELSE Rejections

\* How the routing request can fail: the answer holds no route, or the
\* request (or the reading of its body) rejects.
RouterFailures == { "no routes", "rejects" }

RouterThrows(failure) ==
    IF failure = "no routes"
    THEN { Error("No route could be found between the locations.") }
    ELSE Rejections

\* The calls of onMapError made by fetchRoutes before its first await: none
\* on the blank-location return, onMapError("") otherwise.
StartCalls(start, end) == IF Blank(start) \/ Blank(end) THEN << >> ELSE << "" >>

\* A plausible slip: the error is reported by the throwing code and again by
\* the catch.
CatchCalls_twice(e) ==
    LET message == IF e.message # "" THEN e.message
                   ELSE "An unknown error occurred during routing."
    IN  << message, message >>

\* The calls of onMapError made by the catch block, in order.
CatchCalls(e) ==
    << IF e.message # "" THEN e.message
       ELSE "An unknown error occurred during routing." >>

\* onMapError={message => { if (message) toast(...); ... }}: the toast shown
\* last, after a call with message.
OnMapError(shown, message) == IF message # "" THEN message ELSE shown

RECURSIVE ToastAfter(_, _, _)
ToastAfter(shown, calls, i) ==
    IF i > Len(calls) THEN shown
    ELSE ToastAfter(OnMapError(shown, calls[i]), calls, i + 1)

\* The catch and the finally of fetch k for the thrown error e.
FetchThrows(k, e) ==
    /\ FetchFails(k)
    /\ toast' = ToastAfter(toast, CatchCalls(e), 1)

\* handleSearch as the form's onSubmit, with the calls of onMapError of the
\* fetch it starts.
SubmitAndFetch ==
    /\ SearchEnabled
    /\ HandleSearchWith(startInput, endInput, currentLocation # "null")
    /\ isAddMode' = FALSE
    /\ IF MissingLocations(startInput, endInput, currentLocation # "null")
       THEN toast' = "Missing Locations" /\ isNavigating' = isNavigating
       ELSE /\ toast' = ToastAfter(toast, StartCalls(activeRoute'.start, activeRoute'.end), 1)
            /\ isNavigating' = FALSE
    /\ UNCHANGED << startInput, endInput, currentLocation, locating,
                    blackSpots, scoreVars, briefVars, authVars, maxPending,
                    isLoggedIn, isCoordAddOpen, coordLat, coordLng, isProcessingSpot,
                    newSpotInfo, spotToConfirm, additions >>

GeocodingReports ==
    /\ \E k \in 1..Len(fetches), res \in GeocodeResults :
          /\ fetches[k].pc = "geocoding"
          /\ IF res # "found"
             THEN \E e \in GeocodeThrows(res) : FetchThrows(k, e)
             ELSE /\ fetches' = [ fetches EXCEPT ![k].pc = "routing" ]
                  /\ UNCHANGED << activeRoute, stops, stopToAdd, routes, selectedRouteIndex,
                                  routeDetails, isRoutePlanned, safetyBriefing, isSearching,
                                  analyses, json, toast >>
    /\ UNCHANGED << startInput, endInput, currentLocation, locating, isNavigating,
                    besideForm >>

RouterReports ==
    /\ \E k \in 1..Len(fetches), failure \in RouterFailures :
          /\ fetches[k].pc = "routing"
          /\ \E e \in RouterThrows(failure) : FetchThrows(k, e)
    /\ UNCHANGED << startInput, endInput, currentLocation, locating, isNavigating,
                    besideForm >>

InitFetch ==
    /\ blackSpots \in Collections
    /\ AppIdle
    /\ ScoreIdle /\ BriefIdle /\ AuthIdle /\ UiIdle

NextFetch ==
    \/ SetStartInput
    \/ SetEndInput
    \/ SubmitAndFetch
    \/ CancelRoute
    \/ GeocodingReports
    \/ RouterReports
    \/ RouterAnswers
    \/ AnalysisSettles

SpecFetch == InitFetch /\ [][NextFetch]_vars

(***************************************************************************)
(* C21. When geocoding finds no result for the start or the end, or the    *)
(* router returns no route, the fetch stores an empty route list, calls    *)
(* onMapError exactly once with a non-empty message (the toast shows it),  *)
(* requests no safety briefing, reports null route details, and the        *)
(* application ends with isRoutePlanned false.                             *)
(***************************************************************************)
NoResultErrors ==
    GeocodeThrows("none") \cup RouterThrows("no routes")

NonEmptyCalls(calls) == SelectSeq(calls, LAMBDA message : message # "")

C21_FailedFetchReportsOnce ==
    [][ \A k \in 1..Len(fetches), e \in NoResultErrors :
          \/ /\ routes' = << >>
             /\ Len(NonEmptyCalls(CatchCalls(e))) = 1
             /\ toast' = e.message
             /\ Len(analyses') <= Len(analyses)
             /\ routeDetails' = NullDetails
             /\ ~isRoutePlanned'
          \/ ~FetchThrows(k, e) ]_vars

\* The router has answered the only fetch without a route.
C21_Witness ==
    /\ toast = "No route could be found between the locations."
    /\ activeRoute.end = Str("Alappuzha")
    /\ fetches = << >>
    /\ routes = << >>
    /\ ~isRoutePlanned

(***************************************************************************)
(* C22. When the start location is a blank string or the end location is   *)
(* blank, the route fetch clears the route list, resets selectedRouteIndex *)
(* to 0, reports null route details and a null briefing, and returns       *)
(* without geocoding, without calling the router and without signalling    *)
(* onLoading(true) or onMapError.                                          *)
(***************************************************************************)
\* The handlers after which the fetch effect runs: each stores a new
\* activeRoute or a new stops array.
HandlerRunsFetch ==
    \/ HandleSearch
    \/ HandleCancelRoute
    \/ HandleAddStopConfirm
    \/ HandleRemoveStop

C22_BlankFetchOnlyClears ==
    [][ \/ ~(Blank(activeRoute'.start) \/ Blank(activeRoute'.end))
        \/ /\ routes' = << >>
           /\ selectedRouteIndex' = 0
           /\ routeDetails' = NullDetails
           /\ safetyBriefing' = NullBriefing
           /\ fetches' = fetches
           /\ isSearching' = isSearching
           /\ StartCalls(activeRoute'.start, activeRoute'.end) = << >>
           /\ toast' = toast
        \/ ~HandlerRunsFetch ]_vars

\* The fetch ran with the resolved current location and a blank destination.
C22_Witness ==
    /\ activeRoute.start = CurrentLocation
    /\ Blank(activeRoute.end)
    /\ routes = << >>
    /\ selectedRouteIndex = 0
    /\ routeDetails = NullDetails
    /\ safetyBriefing = NullBriefing
    /\ fetches = << >>
    /\ ~isSearching

====
